---- MODULE Spec2Model ----
(***************************************************************************)
(* Backup / restore engine of the budget tracker                           *)
(* (server/services/backupService.ts over the SQLite store of              *)
(* server/db/schema.sql, reached through server/routes/backup.ts).         *)
(*                                                                         *)
(* A table is the sequence of its rows in rowid order; a row is a record   *)
(* of the modelled columns.  A JSON object is a record whose DOMAIN is the *)
(* set of keys that are present: a missing key reads as undefined.         *)
(***************************************************************************)
EXTENDS Integers, Sequences, FiniteSets, TLC

\* JavaScript null, stored as SQL NULL.
NULL == "<null>"

\* The eight tables, in the order replace deletes them.
DeleteOrder ==
    << "goal_contributions", "goals", "budgets", "bills",
       "transactions", "recurring_patterns", "categories", "accounts" >>

Tables == { DeleteOrder[i] : i \in 1..Len(DeleteOrder) }

\* The snapshot key (data.<key>) that carries each table's rows.
KeyOf(table) ==
    CASE table = "goal_contributions" -> "goalContributions"
      [] table = "recurring_patterns" -> "recurringPatterns"
      [] OTHER -> table

\* The columns of each table that the model keeps.
Columns(table) ==
    CASE table = "accounts"           -> {"id", "name"}
      [] table = "categories"         -> {"id", "name", "parent_id"}
      [] table = "recurring_patterns" -> {"id"}
      [] table = "transactions"       ->
            {"id", "account_id", "category_id", "recurring_pattern_id", "amount", "type",
             "date", "description", "notes"}
      [] table = "bills"              -> {"id", "account_id", "category_id", "due_day"}
      [] table = "budgets"            -> {"id", "category_id"}
      [] table = "goals"              -> {"id"}
      [] table = "goal_contributions" -> {"id", "goal_id"}

\* NOT NULL columns.
NotNull(table) ==
    CASE table = "accounts"           -> {"id", "name"}
      [] table = "categories"         -> {"id", "name"}
      [] table = "recurring_patterns" -> {"id"}
      [] table = "transactions"       -> {"id", "account_id", "amount", "type", "date"}
      [] table = "bills"              -> {"id", "due_day"}
      [] table = "budgets"            -> {"id", "category_id"}
      [] table = "goals"              -> {"id"}
      [] table = "goal_contributions" -> {"id", "goal_id"}

\* REFERENCES clauses: <<referencing column, referenced table, ON DELETE action>>.
ForeignKeys(table) ==
    CASE table = "categories"   -> { <<"parent_id", "categories", "SET NULL">> }
      [] table = "transactions" -> { <<"account_id", "accounts", "CASCADE">>,
                                     <<"category_id", "categories", "SET NULL">>,
                                     <<"recurring_pattern_id", "recurring_patterns", "SET NULL">> }
      [] table = "bills"        -> { <<"category_id", "categories", "SET NULL">>,
                                     <<"account_id", "accounts", "SET NULL">> }
      [] table = "budgets"      -> { <<"category_id", "categories", "CASCADE">> }
      [] table = "goal_contributions" -> { <<"goal_id", "goals", "CASCADE">> }
      [] OTHER -> {}

\* Columns of a numeric type; every row the model builds holds a number there.
Numeric == {"amount", "date", "due_day"}

\* CHECK (due_day >= 1 AND due_day <= 31) on bills.
MinDueDay == 1
MaxDueDay == 31

\* CHECK (type IN ('income', 'expense', 'transfer')) on transactions.
TransactionTypes == {"income", "expense", "transfer"}

CheckOk(table, row) ==
    /\ table = "bills" => (row.due_day >= MinDueDay /\ row.due_day <= MaxDueDay)
    /\ table = "transactions" => row.type \in TransactionTypes

Ids(rows) == { rows[i].id : i \in 1..Len(rows) }

\* A lookup that never finds the row.
HasRow_Never(st, table, id) == FALSE

\* SELECT id FROM <table> WHERE id = ?  returned a row.
HasRow(st, table, id) == \E i \in 1..Len(st[table]) : st[table][i].id = id

(***************************************************************************)
(* One SQL statement.  db.pragma('foreign_keys = ON'): a foreign key is    *)
(* checked when the statement ends, so a row may reference itself.         *)
(***************************************************************************)

\* The message of the error an INSERT of `row` raises, "" when it succeeds.
\* A key the row lacks is bound as undefined, which the driver refuses.
BindError == "SQLite3 can only bind numbers, strings, bigints, buffers, and null"

\* The checks of an INSERT with foreign_keys = OFF.
InsertError_Unreferenced(st, table, row) ==
    IF \E c \in Columns(table) : c \notin DOMAIN row
      THEN BindError
    ELSE IF \E c \in NotNull(table) \ Numeric : row[c] = NULL
      THEN "NOT NULL constraint failed"
    ELSE IF ~CheckOk(table, row)
      THEN "CHECK constraint failed"
    ELSE IF HasRow(st, table, row.id)
      THEN "UNIQUE constraint failed"
    ELSE ""

InsertError(st, table, row) ==
    IF \E c \in Columns(table) : c \notin DOMAIN row
      THEN BindError
    ELSE IF \E c \in NotNull(table) \ Numeric : row[c] = NULL
      THEN "NOT NULL constraint failed"
    ELSE IF ~CheckOk(table, row)
      THEN "CHECK constraint failed"
    ELSE IF HasRow(st, table, row.id)
      THEN "UNIQUE constraint failed"
    ELSE IF \E fk \in ForeignKeys(table) :
              /\ row[fk[1]] # NULL
              /\ ~HasRow(st, fk[2], row[fk[1]])
              /\ ~(fk[2] = table /\ row[fk[1]] = row.id)
      THEN "FOREIGN KEY constraint failed"
    ELSE ""

\* The store after a successful INSERT: the row, cut to the table's columns,
\* gets the next rowid.
InsertRow(st, table, row) ==
    [st EXCEPT ![table] = Append(@, [c \in Columns(table) |-> row[c]])]

\* A DELETE that removes nothing.
DeleteFrom_Nothing(st, table) == st

\* DELETE FROM <table>, with the ON DELETE actions of the referencing columns.
DeleteFrom(st, table) ==
    LET Cascaded(t, rows) ==
            LET Dead(r) == \E fk \in ForeignKeys(t) :
                              fk[2] = table /\ fk[3] = "CASCADE" /\ r[fk[1]] # NULL
                Kept(r) == ~Dead(r)
            IN  SelectSeq(rows, Kept)
        Nulled(t, r) ==
            [c \in DOMAIN r |->
                IF \E fk \in ForeignKeys(t) :
                      fk[1] = c /\ fk[2] = table /\ fk[3] = "SET NULL"
                  THEN NULL ELSE r[c]]
    IN  [t \in Tables |->
            IF t = table THEN << >>
            ELSE LET rows == Cascaded(t, st[t])
                 IN  [i \in 1..Len(rows) |-> Nulled(t, rows[i])]]

\* The message of a store failure (SQLITE_IOERR, SQLITE_FULL, SQLITE_BUSY).
StoreFailure == "disk I/O error"

\* A database session inside one service call: the working store, the number
\* of statements run so far, the statement the store fails on (0: none), the
\* statements run, and the exception that ended the call, if any.
Session(st, fault) ==
    [store |-> st, n |-> 0, fault |-> fault, log |-> << >>, threw |-> FALSE, message |-> ""]

Faulty(s) == s.fault = s.n + 1

Throw(s, msg) == [s EXCEPT !.threw = TRUE, !.message = msg]

Ran(s, stmt) == [s EXCEPT !.n = @ + 1, !.log = Append(@, stmt)]

\* A transaction wrapper that rethrows without rolling back.
Transaction_NoRollback(st, s) == s

\* db.transaction(fn)(): BEGIN, fn, COMMIT; ROLLBACK and rethrow when fn throws.
Transaction(st, s) == IF s.threw THEN [s EXCEPT !.store = st] ELSE s

(***************************************************************************)
(* backupService.export and backupService.import (replace).                *)
(***************************************************************************)

RequiredKeys ==
    << "accounts", "categories", "transactions", "bills",
       "goals", "goalContributions", "budgets", "recurringPatterns" >>

\* Array.isArray(obj[key]).  A collection that is missing or is not an array
\* is a key the object lacks; an object without `data` is one with no keys.
IsArray(obj, key) == key \in DOMAIN obj

\* SELECT * FROM each table.
Export(st) ==
    [version  |-> 1,
     data     |-> [k \in {RequiredKeys[i] : i \in 1..Len(RequiredKeys)} |->
                     st[CHOOSE t \in Tables : KeyOf(t) = k]],
     metadata |-> [totalAccounts     |-> Len(st["accounts"]),
                   totalTransactions |-> Len(st["transactions"]),
                   totalGoals        |-> Len(st["goals"]),
                   totalBills        |-> Len(st["bills"])]]

\* The delete order, reversed.
InsertOrder_Reversed == [i \in 1..Len(DeleteOrder) |-> DeleteOrder[Len(DeleteOrder) + 1 - i]]

\* The tables in the order replace and merge insert into them.
InsertOrder ==
    << "categories", "accounts", "recurring_patterns", "transactions",
       "bills", "budgets", "goals", "goal_contributions" >>

\* The records of a snapshot as <<table, record>>, in the order they are processed.
RECURSIVE Records(_, _)
Records(backup, i) ==
    IF i > Len(InsertOrder) THEN << >>
    ELSE LET t    == InsertOrder[i]
             rows == backup.data[KeyOf(t)]
         IN  [j \in 1..Len(rows) |-> <<t, rows[j]>>] \o Records(backup, i + 1)

\* A restore that deletes nothing.
ClearTables_Skip(s, i) == s

\* The eight DELETE statements, from the i-th on.
RECURSIVE ClearTables(_, _)
ClearTables(s, i) ==
    IF i > Len(DeleteOrder) \/ s.threw THEN s
    ELSE IF Faulty(s) THEN Throw(Ran(s, <<"DELETE", DeleteOrder[i]>>), StoreFailure)
    ELSE ClearTables(
            Ran([s EXCEPT !.store = DeleteFrom(s.store, DeleteOrder[i])],
                <<"DELETE", DeleteOrder[i]>>),
            i + 1)

\* insertX.run(...) for the records from the i-th on; the first error escapes.
RECURSIVE InsertAll(_, _, _)
InsertAll(s, recs, i) ==
    IF i > Len(recs) \/ s.threw THEN s
    ELSE LET t   == recs[i][1]
             row == recs[i][2]
             err == InsertError(s.store, t, row)
         IN  IF Faulty(s) THEN Throw(Ran(s, <<"INSERT", t>>), StoreFailure)
             ELSE IF err # "" THEN Throw(Ran(s, <<"INSERT", t>>), err)
             ELSE InsertAll(
                     Ran([s EXCEPT !.store = InsertRow(s.store, t, row)], <<"INSERT", t>>),
                     recs, i + 1)

\* The body of the restore transaction.
Restore(s, backup) == InsertAll(ClearTables(s, 1), Records(backup, 1), 1)

\* backupService.import: {success, error} and the session it ran.
Import(st, backup, fault) ==
    IF backup.version # 1
      THEN [success |-> FALSE, error |-> "Unsupported backup version",
            session |-> Session(st, fault)]
    ELSE IF \E i \in 1..Len(RequiredKeys) : ~IsArray(backup.data, RequiredKeys[i])
      THEN [success |-> FALSE, error |-> "Missing or invalid",
            session |-> Session(st, fault)]
    ELSE LET s == Transaction(st, Restore(Session(st, fault), backup))
         IN  IF s.threw
               THEN [success |-> FALSE, error |-> s.message, session |-> s]
               ELSE [success |-> TRUE, session |-> s]

(***************************************************************************)
(* backupService.importMerge.                                              *)
(***************************************************************************)

EntityOf(table) ==
    CASE table = "categories"         -> "category"
      [] table = "accounts"           -> "account"
      [] table = "recurring_patterns" -> "pattern"
      [] table = "transactions"       -> "transaction"
      [] table = "bills"              -> "bill"
      [] table = "budgets"            -> "budget"
      [] table = "goals"              -> "goal"
      [] table = "goal_contributions" -> "contribution"

\* The stem of a table's two summary counters.
CounterOf(table) ==
    CASE table = "recurring_patterns" -> "patterns"
      [] table = "goal_contributions" -> "contributions"
      [] OTHER -> table

AddedKey(table) == CounterOf(table) \o "Added"
SkippedKey(table) == CounterOf(table) \o "Skipped"

SummaryKeys == { AddedKey(t) : t \in Tables } \cup { SkippedKey(t) : t \in Tables }

createEmptySummary == [k \in SummaryKeys |-> 0]

\* The references importMerge looks up itself before it inserts:
\* <<column, referenced table, the word used in the message>>.
Validated(table) ==
    CASE table = "transactions"       -> << <<"account_id", "accounts", "account">> >>
      [] table = "goal_contributions" -> << <<"goal_id", "goals", "goal">> >>
      [] OTHER -> << >>

\* exists(table, rec[col]): the SELECT statement; whether a row came back is
\* HasRow on the session's store.
Exists(s, table, rec, col) ==
    IF Faulty(s) THEN Throw(Ran(s, <<"SELECT", table>>), StoreFailure)
    ELSE IF col \notin DOMAIN rec THEN Throw(Ran(s, <<"SELECT", table>>), BindError)
    ELSE Ran(s, <<"SELECT", table>>)

\* An insert without its try block: the store's refusal leaves the loops.
TryInsert_Rethrow(m, t, rec) ==
    LET err == IF Faulty(m.s) THEN StoreFailure ELSE InsertError(m.s.store, t, rec)
        s1  == Ran(m.s, <<"INSERT", t>>)
    IN  IF err # ""
          THEN [m EXCEPT !.s = Throw(s1, err)]
          ELSE [m EXCEPT !.s = [s1 EXCEPT !.store = InsertRow(m.s.store, t, rec)],
                         !.summary[AddedKey(t)] = @ + 1]

\* try { INSERT; xAdded++ } catch (err) { errors.push({entity, id, message}) }
TryInsert(m, t, rec) ==
    LET err == IF Faulty(m.s) THEN StoreFailure ELSE InsertError(m.s.store, t, rec)
        s1  == Ran(m.s, <<"INSERT", t>>)
    IN  IF err # ""
          THEN [m EXCEPT !.s = s1,
                         !.errors = Append(@, [entity |-> EntityOf(t), id |-> rec.id,
                                               message |-> err])]
          ELSE [m EXCEPT !.s = [s1 EXCEPT !.store = InsertRow(m.s.store, t, rec)],
                         !.summary[AddedKey(t)] = @ + 1]

\* The rest of an iteration, for a record whose id is not in the table: the
\* lookup of the reference the code validates, then the insert.
InsertChecked(m, t, rec) ==
    IF Validated(t) = << >> THEN TryInsert(m, t, rec)
    ELSE LET ref == Validated(t)[1]
             s2  == Exists(m.s, ref[2], rec, ref[1])
         IN  IF s2.threw THEN [m EXCEPT !.s = s2]
             ELSE IF ~HasRow(s2.store, ref[2], rec[ref[1]])
               THEN [m EXCEPT !.s = s2,
                       !.errors = Append(@,
                          [entity  |-> EntityOf(t), id |-> rec.id, field |-> ref[1],
                           message |-> "Referenced " \o ref[3] \o " " \o rec[ref[1]]
                                         \o " does not exist"])]
             ELSE TryInsert([m EXCEPT !.s = s2], t, rec)

\* An iteration that writes the incoming record over the stored one
\* (INSERT OR REPLACE) where the id is already in the table.
MergeRecord_Overwrite(m, t, rec) ==
    LET s1 == Exists(m.s, t, rec, "id")
        Put(rows) == [k \in 1..Len(rows) |->
                        IF rows[k].id = rec.id THEN [c \in Columns(t) |-> rec[c]]
                        ELSE rows[k]]
    IN  IF s1.threw THEN [m EXCEPT !.s = s1]
        ELSE IF HasRow(s1.store, t, rec.id)
          THEN [m EXCEPT !.s = [s1 EXCEPT !.store[t] = Put(@)],
                         !.summary[SkippedKey(t)] = @ + 1]
        ELSE InsertChecked([m EXCEPT !.s = s1], t, rec)

\* An iteration that passes over a stored id without counting it.
MergeRecord_Uncounted(m, t, rec) ==
    LET s1 == Exists(m.s, t, rec, "id")
    IN  IF s1.threw \/ HasRow(s1.store, t, rec.id) THEN [m EXCEPT !.s = s1]
        ELSE InsertChecked([m EXCEPT !.s = s1], t, rec)

\* One iteration of a collection's loop.
MergeRecord(m, t, rec) ==
    LET s1 == Exists(m.s, t, rec, "id")
    IN  IF s1.threw THEN [m EXCEPT !.s = s1]
        ELSE IF HasRow(s1.store, t, rec.id)
          THEN [m EXCEPT !.s = s1, !.summary[SkippedKey(t)] = @ + 1]
        ELSE InsertChecked([m EXCEPT !.s = s1], t, rec)

\* Loops that end at the first record that leaves an error.
RECURSIVE MergeAll_StopAtError(_, _, _)
MergeAll_StopAtError(m, recs, i) ==
    IF i > Len(recs) \/ m.s.threw \/ m.errors # << >> THEN m
    ELSE MergeAll_StopAtError(MergeRecord(m, recs[i][1], recs[i][2]), recs, i + 1)

\* The body of mergeTransaction: the eight loops, from the i-th record on.
RECURSIVE MergeAll(_, _, _)
MergeAll(m, recs, i) ==
    IF i > Len(recs) \/ m.s.threw THEN m
    ELSE MergeAll(MergeRecord(m, recs[i][1], recs[i][2]), recs, i + 1)

\* A merge whose loops run outside a transaction: what an escaped exception
\* leaves behind stays in the store.
ImportMerge_Unwrapped(st, backup, fault) ==
    LET m0 == [s |-> Session(st, fault), summary |-> createEmptySummary, errors |-> << >>]
        m1 == MergeAll(m0, Records(backup, 1), 1)
    IN  [result |->
            [success |-> ~m1.s.threw,
             mode    |-> "merge",
             summary |-> m1.summary,
             errors  |-> IF m1.s.threw
                           THEN Append(m1.errors, [entity |-> "backup", id |-> "global",
                                                   message |-> m1.s.message])
                           ELSE m1.errors],
         session |-> m1.s]

\* backupService.importMerge: the result and the session it ran.
ImportMerge(st, backup, fault) ==
    LET m0 == [s |-> Session(st, fault), summary |-> createEmptySummary, errors |-> << >>]
        m1 == MergeAll(m0, Records(backup, 1), 1)
        s  == Transaction(st, m1.s)
    IN  [result |->
            [success |-> ~s.threw,
             mode    |-> "merge",
             summary |-> m1.summary,
             errors  |-> IF s.threw
                           THEN Append(m1.errors, [entity |-> "backup", id |-> "global",
                                                   message |-> s.message])
                           ELSE m1.errors],
         session |-> s]

(***************************************************************************)
(* The encrypted envelope.  AES-256-GCM under a PBKDF2 key is modelled     *)
(* symbolically: a key is the pair it was derived from, a ciphertext names *)
(* the key, the iv and the text it hides, and an auth tag names the key,   *)
(* the iv and the ciphertext it was computed over.                         *)
(***************************************************************************)

\* crypto.pbkdf2Sync(password, salt, 100000, 32, 'sha256')
pbkdf2Sync(password, salt) == [password |-> password, salt |-> salt]

\* JSON.stringify: the text of a value.
stringify(value) == [json |-> value]

\* A text JSON.parse rejects.
NotJson == [garbled |-> TRUE]

\* cipher.update + cipher.final, and cipher.getAuthTag.
Cipher(key, iv, text) == [key |-> key, iv |-> iv, text |-> text]

AuthTag(key, iv, ciphertext) == [key |-> key, iv |-> iv, over |-> ciphertext]

\* An envelope that publishes another salt than the one its key came from.
encryptBackup_OtherSalt(backup, password, salt, iv) ==
    LET key        == pbkdf2Sync(password, "salt0")
        ciphertext == Cipher(key, iv, stringify(backup))
    IN  [version |-> 1, encrypted |-> TRUE, algorithm |-> "aes-256-gcm",
         salt |-> salt, iv |-> iv,
         authTag |-> AuthTag(key, iv, ciphertext),
         data |-> ciphertext]

\* `salt` and `iv` are the bytes crypto.randomBytes returns to the call.
encryptBackup(backup, password, salt, iv) ==
    LET key        == pbkdf2Sync(password, salt)
        ciphertext == Cipher(key, iv, stringify(backup))
    IN  [version |-> 1, encrypted |-> TRUE, algorithm |-> "aes-256-gcm",
         salt |-> salt, iv |-> iv,
         authTag |-> AuthTag(key, iv, ciphertext),
         data |-> ciphertext]

decryptBackup_Unauthenticated(envelope, password) ==
    IF "json" \in DOMAIN envelope.data.text
      THEN [threw |-> FALSE, backup |-> envelope.data.text.json]
      ELSE [threw |-> TRUE]

decryptBackup_KeyOnly(envelope, password) ==
    IF pbkdf2Sync(password, envelope.salt) = envelope.data.key
       /\ "json" \in DOMAIN envelope.data.text
      THEN [threw |-> FALSE, backup |-> envelope.data.text.json]
      ELSE [threw |-> TRUE]

\* decipher.final() throws unless the tag is the one the derived key gives
\* for the iv and the ciphertext; JSON.parse throws on a text that is not
\* JSON.  A ciphertext opened under another key or iv is not JSON.
decryptBackup(envelope, password) ==
    LET key  == pbkdf2Sync(password, envelope.salt)
        text == IF envelope.data.key = key /\ envelope.data.iv = envelope.iv
                  THEN envelope.data.text
                  ELSE NotJson
    IN  IF envelope.authTag = AuthTag(key, envelope.iv, envelope.data)
           /\ "json" \in DOMAIN text
          THEN [threw |-> FALSE, backup |-> text.json]
          ELSE [threw |-> TRUE]

isEncryptedBackup(data) == "encrypted" \in DOMAIN data /\ data.encrypted = TRUE

(***************************************************************************)
(* backupService.validateBackupStructure.                                  *)
(***************************************************************************)

\* !rec[f] for a string field: undefined, null or ''.
Falsy(rec, f) == f \notin DOMAIN rec \/ rec[f] = NULL \/ rec[f] = ""

\* typeof rec[f] === 'number'
IsNumber(rec, f) == f \in DOMAIN rec /\ rec[f] \in Int

\* rec.id || 'unknown'
IdOrUnknown(rec) == IF Falsy(rec, "id") THEN "unknown" ELSE rec.id

\* A check of the collections that returns at the first one it misses.
StructureErrors_First(backup, i) ==
    LET missing == { k \in i..Len(RequiredKeys) : ~IsArray(backup.data, RequiredKeys[k]) }
    IN  IF missing = {} THEN << >>
        ELSE LET k == CHOOSE k \in missing : \A other \in missing : k <= other
             IN  << [entity |-> "backup", id |-> RequiredKeys[k],
                     message |-> "Missing or invalid array: " \o RequiredKeys[k]] >>

RECURSIVE StructureErrors(_, _)
StructureErrors(backup, i) ==
    IF i > Len(RequiredKeys) THEN << >>
    ELSE (IF IsArray(backup.data, RequiredKeys[i]) THEN << >>
          ELSE << [entity |-> "backup", id |-> RequiredKeys[i],
                   message |-> "Missing or invalid array: " \o RequiredKeys[i]] >>)
         \o StructureErrors(backup, i + 1)

TransactionErrors(tx) ==
    (IF Falsy(tx, "id")
       THEN << [entity |-> "transaction", id |-> "unknown", field |-> "id",
                message |-> "Transaction missing ID"] >>
       ELSE << >>)
    \o (IF Falsy(tx, "account_id")
          THEN << [entity |-> "transaction", id |-> IdOrUnknown(tx), field |-> "account_id",
                   message |-> "Transaction missing account_id"] >>
          ELSE << >>)
    \o (IF ~IsNumber(tx, "amount")
          THEN << [entity |-> "transaction", id |-> IdOrUnknown(tx), field |-> "amount",
                   message |-> "Invalid amount"] >>
          ELSE << >>)

\* The two checks shared by accounts and categories.
NamedErrors(entity, label, rec) ==
    (IF Falsy(rec, "id")
       THEN << [entity |-> entity, id |-> "unknown", field |-> "id",
                message |-> label \o " missing ID"] >>
       ELSE << >>)
    \o (IF Falsy(rec, "name")
          THEN << [entity |-> entity, id |-> IdOrUnknown(rec), field |-> "name",
                   message |-> label \o " missing name"] >>
          ELSE << >>)

\* The concatenation of a sequence of sequences, from the i-th on.
RECURSIVE Concat(_, _)
Concat(seqs, i) == IF i > Len(seqs) THEN << >> ELSE seqs[i] \o Concat(seqs, i + 1)

\* A validator that stops after the version and the collections.
validateBackupStructure_NoRecords(backup) ==
    (IF "version" \in DOMAIN backup /\ backup.version = 1 THEN << >>
     ELSE << [entity |-> "backup", id |-> "version",
              message |-> "Unsupported backup version"] >>)
    \o StructureErrors(backup, 1)

validateBackupStructure(backup) ==
    LET versionError ==
            IF "version" \in DOMAIN backup /\ backup.version = 1 THEN << >>
            ELSE << [entity |-> "backup", id |-> "version",
                     message |-> "Unsupported backup version: "
                                   \o (IF "version" \in DOMAIN backup
                                         THEN ToString(backup.version) ELSE "undefined")] >>
        structural == versionError \o StructureErrors(backup, 1)
        txs  == backup.data.transactions
        accs == backup.data.accounts
        cats == backup.data.categories
    IN  IF Len(structural) > 0 THEN structural
        ELSE Concat([i \in 1..Len(txs) |-> TransactionErrors(txs[i])], 1)
             \o Concat([i \in 1..Len(accs) |-> NamedErrors("account", "Account", accs[i])], 1)
             \o Concat([i \in 1..Len(cats) |->
                           NamedErrors("category", "Category", cats[i])], 1)

\* An element of a collection that is null, not an object.
JsonNull == [null |-> TRUE]

\* The record pass reads tx.id, acc.id and cat.id of every element: on a
\* null element the read raises a TypeError, which nothing in the validator
\* catches.  The pass is reached only when the structure has no error.
ValidationThrows(backup) ==
    /\ "version" \in DOMAIN backup
    /\ backup.version = 1
    /\ StructureErrors(backup, 1) = << >>
    /\ \E k \in {"transactions", "accounts", "categories"} :
          \E i \in 1..Len(backup.data[k]) : backup.data[k][i] = JsonNull

(***************************************************************************)
(* backupService.importWithOptions.                                        *)
(***************************************************************************)

\* The summary of the replace branch: every collection's length as Added.
ReplaceSummary(backup) ==
    [k \in SummaryKeys |->
        IF \E t \in Tables : k = AddedKey(t)
          THEN Len(backup.data[KeyOf(CHOOSE t \in Tables : k = AddedKey(t))])
          ELSE 0]

Failed(mode, errors) ==
    [success |-> FALSE, mode |-> mode, summary |-> createEmptySummary, errors |-> errors]

\* A property that was not set.
UNDEFINED == "<undefined>"

\* options.mode
ModeOf(options) == IF "mode" \in DOMAIN options THEN options.mode ELSE UNDEFINED

\* options.password === undefined
NoPassword_Undefined(options) == "password" \notin DOMAIN options

\* !options.password
NoPassword(options) == Falsy(options, "password")

\* The result and the store afterwards, with what the call did on the way:
\* the statements run, the number of decryptBackup calls, the strategy that
\* ran ("none" when the call returned before) and whether its transaction
\* body threw.
importWithOptions(st, data, options, fault) ==
    LET Untouched(result) ==
            [raised |-> FALSE, result |-> result, store |-> st, log |-> << >>,
             decrypts |-> 0, ran |-> "none", threw |-> FALSE]
        Validate(backup) ==
            IF ValidationThrows(backup) THEN << >> ELSE validateBackupStructure(backup)
        Dispatch(backup) ==
            LET errors == Validate(backup)
            IN  IF ValidationThrows(backup)
                  THEN [raised |-> TRUE, store |-> st, log |-> << >>, decrypts |-> 0,
                        ran |-> "none", threw |-> FALSE]
                ELSE IF Len(errors) > 0 THEN Untouched(Failed(ModeOf(options), errors))
                ELSE IF ModeOf(options) = "merge"
                  THEN LET m == ImportMerge(st, backup, fault)
                       IN  [raised |-> FALSE,
                            result |-> m.result, store |-> m.session.store,
                            log |-> m.session.log, decrypts |-> 0,
                            ran |-> "merge", threw |-> m.session.threw]
                  ELSE LET r == Import(st, backup, fault)
                       IN  [raised |-> FALSE,
                            result |->
                              [success |-> r.success,
                               mode    |-> "replace",
                               summary |-> ReplaceSummary(backup),
                               errors  |-> IF "error" \in DOMAIN r
                                             THEN << [entity |-> "backup", id |-> "global",
                                                      message |-> r.error] >>
                                             ELSE << >>],
                            store |-> r.session.store,
                            log   |-> r.session.log,
                            decrypts |-> 0,
                            ran   |-> "replace",
                            threw |-> r.session.threw]
    IN  IF isEncryptedBackup(data)
          THEN IF NoPassword(options)
                 THEN Untouched(Failed(ModeOf(options),
                        << [entity |-> "backup", id |-> "global",
                            message |-> "Password required for encrypted backup"] >>))
               ELSE LET d == decryptBackup(data, options.password)
                    IN  IF d.threw
                          THEN [Untouched(Failed(ModeOf(options),
                                  << [entity |-> "backup", id |-> "global",
                                      message |->
                                        "Decryption failed - incorrect password or corrupted file"] >>))
                                EXCEPT !.decrypts = 1]
                          ELSE [Dispatch(d.backup) EXCEPT !.decrypts = 1]
          ELSE Dispatch(data)

(***************************************************************************)
(* The requests the model issues.                                          *)
(***************************************************************************)

\* The most records a request's snapshot holds beyond those of its base.
MaxExtra == 1

\* The statements of one call on which the store may fail: 1..MaxFault.
MaxFault == 3

Tx(id, account, category, pattern) ==
    [id |-> id, account_id |-> account, category_id |-> category,
     recurring_pattern_id |-> pattern, amount |-> 5, type |-> "expense", date |-> 1,
     description |-> NULL, notes |-> NULL]

\* The records a request may carry, as <<table, record>>.
Candidates ==
    { <<"accounts", [id |-> "a1", name |-> "Cash"]>> }
    \cup { <<"categories", [id |-> "c1", name |-> "Salary", parent_id |-> NULL]>> }
    \cup { <<"recurring_patterns", [id |-> "p1"]>> }
    \cup { <<"transactions", Tx("t1", "a1", "c1", "p1")>>,
           <<"transactions", Tx("t2", "a2", NULL, NULL)>>,
           <<"transactions", Tx("t1", "a2", NULL, NULL)>>,
           <<"transactions", [id |-> "t2", account_id |-> "a1", category_id |-> NULL,
                              recurring_pattern_id |-> NULL, type |-> "expense",
                              date |-> 1, description |-> NULL, notes |-> NULL]>> }
    \cup { <<"bills", [id |-> "b1", account_id |-> "a1", category_id |-> "c1",
                       due_day |-> 15]>>,
           <<"bills", [id |-> "b1", account_id |-> NULL, category_id |-> NULL,
                       due_day |-> 32]>> }
    \cup { <<"budgets", [id |-> "u1", category_id |-> "c1"]>> }
    \cup { <<"goals", [id |-> "g1"]>> }
    \cup { <<"goal_contributions", [id |-> "k1", goal_id |-> "g1"]>> }

EmptyData == [k \in {RequiredKeys[i] : i \in 1..Len(RequiredKeys)} |-> << >>]

\* A dataset with one record in every collection, every reference resolved.
FullData ==
    [accounts          |-> << [id |-> "a1", name |-> "Cash"] >>,
     categories        |-> << [id |-> "c1", name |-> "Salary", parent_id |-> NULL] >>,
     recurringPatterns |-> << [id |-> "p1"] >>,
     transactions      |-> << Tx("t1", "a1", "c1", "p1") >>,
     bills             |-> << [id |-> "b1", account_id |-> "a1", category_id |-> "c1",
                               due_day |-> 15] >>,
     budgets           |-> << [id |-> "u1", category_id |-> "c1"] >>,
     goals             |-> << [id |-> "g1"] >>,
     goalContributions |-> << [id |-> "k1", goal_id |-> "g1"] >>]

\* Every data object made of a base dataset and at most k more candidate
\* records, each appended to its collection.
RECURSIVE DataOf(_)
DataOf(k) ==
    IF k = 0 THEN { EmptyData, FullData }
    ELSE LET prev == DataOf(k - 1)
         IN  prev \cup { [d EXCEPT ![KeyOf(c[1])] = Append(@, c[2])] :
                            d \in prev, c \in Candidates }

Snapshots == { [version |-> 1, data |-> d] : d \in DataOf(MaxExtra) }

\* Payloads with a wrong version or with collections left out, over no
\* records, over a transaction without amount and over a null transaction.
Malformed ==
    { [version |-> v, data |-> [k \in DOMAIN EmptyData \ gone |-> base[k]]] :
        v \in {1, 2},
        gone \in { {}, {"bills"}, {"accounts", "goals"}, DOMAIN EmptyData },
        base \in { EmptyData,
                   [EmptyData EXCEPT !.transactions =
                       << [id |-> "t2", account_id |-> "a1", category_id |-> NULL,
                           recurring_pattern_id |-> NULL, type |-> "expense",
                           date |-> 1, description |-> NULL, notes |-> NULL] >>],
                   [EmptyData EXCEPT !.transactions = << JsonNull >>] } }
    \ { [version |-> 1, data |-> EmptyData] }

\* Payloads with a null among the elements of a validated collection.
NullElements ==
    { [version |-> 1, data |-> [EmptyData EXCEPT !.transactions = << JsonNull >>]],
      [version |-> 1,
       data |-> [EmptyData EXCEPT
                   !.accounts = << [id |-> "a1", name |-> "Cash"], JsonNull >>]] }

\* Snapshots of two categories, one the parent of the other, in either order.
Nested ==
    LET parent == [id |-> "c1", name |-> "Salary", parent_id |-> NULL]
        child  == [id |-> "c2", name |-> "Bonus", parent_id |-> "c1"]
    IN  { [version |-> 1, data |-> [EmptyData EXCEPT !.categories = cs]] :
            cs \in { << parent, child >>, << child, parent >> } }

\* A snapshot of an account, two bills of one id, the first with a due day
\* the store refuses, and a goal.
Repeated ==
    { [version |-> 1,
       data |-> [EmptyData EXCEPT
                   !.accounts = << [id |-> "a1", name |-> "Cash"] >>,
                   !.bills =
                     << [id |-> "b1", account_id |-> NULL, category_id |-> NULL,
                         due_day |-> 32],
                        [id |-> "b1", account_id |-> "a1", category_id |-> "c1",
                         due_day |-> 15] >>,
                   !.goals = << [id |-> "g1"] >>]] }

Passwords == {"pw", "other"}

\* The envelope of a small valid snapshot under the password "pw".
Sealed ==
    encryptBackup([version |-> 1,
                   data |-> [EmptyData EXCEPT
                               !.accounts = << [id |-> "a1", name |-> "Cash"] >>]],
                  "pw", "salt1", "iv1")

\* The same envelope with one of salt, iv, auth tag and ciphertext altered.
Altered ==
    { [Sealed EXCEPT !.salt = "salt2"],
      [Sealed EXCEPT !.iv = "iv2"],
      [Sealed EXCEPT !.authTag.over.text = NotJson],
      [Sealed EXCEPT !.data.text = NotJson] }

\* Envelopes: as sealed, altered, of a snapshot of another version, and of
\* a text that is not JSON.
Envelopes ==
    { Sealed, encryptBackup([version |-> 2, data |-> EmptyData], "pw", "salt1", "iv1") }
    \cup Altered
    \cup { [Sealed EXCEPT !.data.text = NotJson,
                          !.authTag.over.text = NotJson] }

Modes == {"replace", "merge"}

\* Options whose mode is none of the two: another case, a misspelling, no
\* mode at all.
Unrequested == { [mode |-> "Replace"], [mode |-> "mrege"], [password |-> "pw"] }

OptionsFor(data) ==
    { [mode |-> m] : m \in Modes }
    \cup (IF isEncryptedBackup(data)
            THEN { [mode |-> m, password |-> p] : m \in Modes, p \in Passwords \cup {""} }
            ELSE {})

(***************************************************************************)
(* The state: the store, and the last request with its response.           *)
(***************************************************************************)
VARIABLES store, last

vars == << store, last >>

Idle == [op |-> "idle"]

\* runMigrations: the schema and the default categories.
Migrated ==
    [t \in Tables |->
        IF t = "categories"
          THEN << [id |-> "c1", name |-> "Salary", parent_id |-> NULL] >>
          ELSE << >>]

Init ==
    /\ store = Migrated
    /\ last = Idle

\* accountRepo.create, with a generated id, for a name among `names`.
CreateAccount(names) ==
    /\ last = Idle
    /\ \E id \in {"a1"} \ Ids(store["accounts"]), name \in names :
        LET row == [id |-> id, name |-> name]
        IN  /\ InsertError(store, "accounts", row) = ""
            /\ store' = InsertRow(store, "accounts", row)
    /\ UNCHANGED last

\* POST /api/accounts
AccountCreate == CreateAccount({"Cash", ""})

\* GET /api/backup/export
ExportBackup ==
    /\ last = Idle
    /\ last' = [op |-> "export", body |-> Export(store)]
    /\ UNCHANGED store

\* The body the route answers with when the service call raised.
ParseFailure ==
    [success |-> FALSE, mode |-> "replace", summary |-> createEmptySummary,
     errors |-> << [entity |-> "backup", id |-> "parse",
                    message |-> "Invalid backup file format"] >>]

\* Object.values(result.summary).some((v, i) => i % 2 === 0 && v > 0): the
\* values come in the order the keys were written, every even one an Added
\* count.
AnyAdded(result) == \E t \in Tables : result.summary[AddedKey(t)] > 0

\* The HTTP status of the answer to an import.
StatusOf(result) ==
    IF ~result.success /\ Len(result.errors) > 0 /\ ~AnyAdded(result) THEN 400 ELSE 200

\* The import handler on one request; the store fails on statement `fault`
\* of the call (0: on none).  `prior` is the call before, when this call
\* replays it; `before` is the store the call found.  `raised` tells that
\* the service call ended in an exception; `result` and `status` are the
\* body and the status of the answer.
Handle(data, options, fault, prior) ==
    \E out \in { importWithOptions(store, data, options, fault) } :
        /\ fault <= Len(out.log)
        /\ store' = out.store
        /\ last' = [op |-> "import", data |-> data, options |-> options,
                    fault |-> fault, before |-> store, prior |-> prior,
                    raised |-> out.raised,
                    result |-> IF out.raised THEN ParseFailure ELSE out.result,
                    status |-> IF out.raised THEN 400 ELSE StatusOf(out.result),
                    log |-> out.log,
                    decrypts |-> out.decrypts, ran |-> out.ran, threw |-> out.threw]

\* POST /api/backup/import with {data, options}.
ImportBackup ==
    /\ last = Idle
    /\ \/ \E data \in Snapshots \cup Malformed \cup NullElements \cup Repeated
                       \cup Envelopes :
            \E options \in OptionsFor(data), fault \in 0..MaxFault :
                Handle(data, options, fault, << >>)
       \/ \E data \in { [version |-> 1, data |-> d] : d \in DataOf(0) } :
            \E options \in Unrequested, fault \in 0..MaxFault :
                Handle(data, options, fault, << >>)

\* POST /api/backup/import with the file the export just returned.
ImportExported ==
    /\ last.op = "export"
    /\ \E options \in OptionsFor(last.body), fault \in 0..MaxFault :
            Handle(last.body, options, fault, << >>)

\* The client replays the merge it just made: the same file, once more.
ImportAgain ==
    /\ last.op = "import"
    /\ ModeOf(last.options) = "merge"
    /\ last.prior = << >>
    /\ Handle(last.data, last.options, 0,
              << [result |-> last.result, fault |-> last.fault] >>)

\* The response has left the server.
Respond ==
    /\ last.op \in {"export", "import"}
    /\ last' = Idle
    /\ UNCHANGED store

Next ==
    \/ AccountCreate
    \/ ExportBackup
    \/ ImportBackup
    \/ ImportExported
    \/ ImportAgain
    \/ Respond

Spec == Init /\ [][Next]_vars

(***************************************************************************)
(* Imports of a category tree: snapshots whose categories refer to one     *)
(* another, onto whatever the imports before them left.                    *)
(***************************************************************************)

\* The base datasets, as they are and with nested categories for theirs.
NestedSnapshots ==
    { [version |-> 1, data |-> base] : base \in DataOf(0) }
    \cup { [nested EXCEPT !.data = [base EXCEPT !.categories = nested.data.categories]] :
             nested \in Nested, base \in DataOf(0) }

\* POST /api/backup/import with one of them.
ImportNested ==
    /\ last = Idle
    /\ \E data \in NestedSnapshots, mode \in Modes, fault \in 0..MaxFault :
          Handle(data, [mode |-> mode], fault, << >>)

NestedNext ==
    \/ ImportNested
    \/ ExportBackup
    \/ ImportExported
    \/ ImportAgain
    \/ Respond

NestedSpec == Init /\ [][NestedNext]_vars

(***************************************************************************)
(* The export side: the ledger grows by the account, category and          *)
(* transaction routes, and POST /api/backup/export reads it.               *)
(***************************************************************************)

\* The most transactions the ledger holds.
MaxTransactions == 2

\* The ids generateId gives the transactions, in the order it gives them.
NewId(n) == CASE n = 1 -> "t1" [] n = 2 -> "t2" [] n = 3 -> "t3" [] OTHER -> "t4"

\* data[k] || null
OrNull(data, k) == IF k \in DOMAIN data /\ data[k] # "" THEN data[k] ELSE NULL

\* The bodies POST /api/transactions receives.
TransactionRequests ==
    { [account_id |-> "a1", category_id |-> "c1", amount |-> 123450, type |-> "expense",
       date |-> 0, description |-> "a,b", notes |-> "a\"b"],
      [account_id |-> "a1", amount |-> 5, type |-> "income", date |-> 1, notes |-> ""],
      [account_id |-> "a1", category_id |-> "c2", amount |-> 0 - 250, type |-> "transfer",
       date |-> 2, description |-> "ab", notes |-> "a\nb"],
      [account_id |-> "a1", amount |-> 7, type |-> "expense", date |-> 1,
       description |-> "a\"b"] }

\* POST /api/accounts, for the names the export side needs.
AccountCreateAny == CreateAccount({"Cash", "", "a,b"})

\* POST /api/categories: categoryRepo.create, with a generated id.
CategoryCreate ==
    /\ last = Idle
    /\ \E id \in {"c2"} \ Ids(store["categories"]), name \in {"a\"b"} :
        LET row == [id |-> id, name |-> name, parent_id |-> NULL]
        IN  /\ InsertError(store, "categories", row) = ""
            /\ store' = InsertRow(store, "categories", row)
    /\ UNCHANGED last

\* POST /api/transactions: transactionRepo.create, with a generated id.
TransactionCreate ==
    /\ last = Idle
    /\ Len(store["transactions"]) < MaxTransactions
    /\ \E data \in TransactionRequests :
        LET row == [id |-> NewId(Len(store["transactions"]) + 1),
                    account_id |-> data.account_id,
                    category_id |-> OrNull(data, "category_id"),
                    recurring_pattern_id |-> NULL,
                    amount |-> data.amount, type |-> data.type, date |-> data.date,
                    description |-> OrNull(data, "description"),
                    notes |-> OrNull(data, "notes")]
        IN  /\ InsertError(store, "transactions", row) = ""
            /\ store' = InsertRow(store, "transactions", row)
    /\ UNCHANGED last

\* transactions.filter(t => t.date >= startDate && t.date <= endDate)
InRange(rows, range) ==
    LET Within(t) == t.date >= range.startDate /\ t.date <= range.endDate
    IN  SelectSeq(rows, Within)

\* A selective export that ignores scope and date range.
exportSelective_Unfiltered(st, options) == Export(st)

\* A selective export that filters the transactions and keeps the counts
\* of the full export.
exportSelective_StaleCounts(st, options) ==
    IF "dateRange" \in DOMAIN options
      THEN [Export(st) EXCEPT !.data.transactions = InRange(@, options.dateRange)]
      ELSE Export(st)

exportSelective(st, options) ==
    LET fullBackup == Export(st)
        Filtered(txs) == IF "dateRange" \in DOMAIN options
                           THEN InRange(txs, options.dateRange)
                           ELSE txs
    IN  IF options.scope = "all"
          THEN IF "dateRange" \in DOMAIN options
                 THEN [fullBackup EXCEPT
                         !.data.transactions = Filtered(@),
                         !.metadata.totalTransactions =
                             Len(Filtered(fullBackup.data.transactions))]
                 ELSE fullBackup
        ELSE LET partialData ==
                     CASE options.scope = "transactions" ->
                            [EmptyData EXCEPT
                               !.transactions = Filtered(fullBackup.data.transactions)]
                       [] options.scope = "accounts" ->
                            [EmptyData EXCEPT !.accounts = fullBackup.data.accounts]
                       [] options.scope = "categories" ->
                            [EmptyData EXCEPT !.categories = fullBackup.data.categories]
                       [] OTHER -> EmptyData
             IN  [version  |-> 1,
                  data     |-> partialData,
                  metadata |-> [totalAccounts     |-> Len(partialData.accounts),
                                totalTransactions |-> Len(partialData.transactions),
                                totalGoals        |-> Len(partialData.goals),
                                totalBills        |-> Len(partialData.bills)]]

(***************************************************************************)
(* backupService.exportCSV.  A text is the sequence of its characters.     *)
(* Amounts are counted in hundredths; every timestamp of the model lies    *)
(* on 1 January 1970 of the server's time zone, taken to be UTC.           *)
(***************************************************************************)

\* The characters of the strings the ledger and the CSV code hold.
Chars(str) ==
    CASE str = "Cash" -> << "C", "a", "s", "h" >>
      [] str = "a,b" -> << "a", ",", "b" >>
      [] str = "ab" -> << "a", "b" >>
      [] str = "a\"b" -> << "a", "\"", "b" >>
      [] str = "a\nb" -> << "a", "\n", "b" >>
      [] str = "Salary" -> << "S", "a", "l", "a", "r", "y" >>
      [] str = "Unknown" -> << "U", "n", "k", "n", "o", "w", "n" >>
      [] str = "income" -> << "i", "n", "c", "o", "m", "e" >>
      [] str = "expense" -> << "e", "x", "p", "e", "n", "s", "e" >>
      [] str = "transfer" -> << "t", "r", "a", "n", "s", "f", "e", "r" >>
      [] OTHER -> << >>

Digit(d) ==
    CASE d = 0 -> "0" [] d = 1 -> "1" [] d = 2 -> "2" [] d = 3 -> "3" [] d = 4 -> "4"
      [] d = 5 -> "5" [] d = 6 -> "6" [] d = 7 -> "7" [] d = 8 -> "8" [] d = 9 -> "9"

\* The decimal digits of a natural number.
RECURSIVE Digits(_)
Digits(n) == IF n < 10 THEN << Digit(n) >> ELSE Digits(n \div 10) \o << Digit(n % 10) >>

\* t.amount.toFixed(2)
toFixed(amount) ==
    LET a == IF amount < 0 THEN 0 - amount ELSE amount
    IN  (IF amount < 0 THEN << "-" >> ELSE << >>)
        \o Digits(a \div 100) \o << ".", Digit((a \div 10) % 10), Digit(a % 10) >>

formatDate(timestamp, dateFormat) ==
    LET year  == << "1", "9", "7", "0" >>
        month == << "0", "1" >>
        day   == << "0", "1" >>
    IN  CASE dateFormat = "DD/MM/YYYY" -> day \o << "/" >> \o month \o << "/" >> \o year
          [] dateFormat = "YYYY-MM-DD" -> year \o << "-" >> \o month \o << "-" >> \o day
          [] OTHER -> month \o << "/" >> \o day \o << "/" >> \o year

\* val.includes(ch)
Includes(chars, ch) == \E i \in 1..Len(chars) : chars[i] = ch

escapeCSV(val) ==
    IF val = NULL \/ val = "" THEN << >>
    ELSE LET chars == Chars(val)
         IN  IF Includes(chars, ",") \/ Includes(chars, "\"") \/ Includes(chars, "\n")
               THEN << "\"" >>
                    \o Concat([i \in 1..Len(chars) |->
                                  IF chars[i] = "\"" THEN << "\"", "\"" >>
                                  ELSE << chars[i] >>], 1)
                    \o << "\"" >>
               ELSE chars

\* array.join(sep), from the i-th element on.
RECURSIVE Join(_, _, _)
Join(texts, sep, i) ==
    IF i > Len(texts) THEN << >>
    ELSE IF i = Len(texts) THEN texts[i]
    ELSE texts[i] \o << sep >> \o Join(texts, sep, i + 1)

\* SELECT * FROM transactions ORDER BY date DESC; rows of one date come in
\* rowid order.
RECURSIVE ByDateDesc(_)
ByDateDesc(rows) ==
    IF rows = << >> THEN << >>
    ELSE LET latest == CHOOSE k \in 1..Len(rows) :
                          /\ \A j \in 1..Len(rows) : rows[j].date <= rows[k].date
                          /\ \A j \in 1..(k - 1) : rows[j].date < rows[k].date
             rest   == [j \in 1..(Len(rows) - 1) |->
                          IF j < latest THEN rows[j] ELSE rows[j + 1]]
         IN  << rows[latest] >> \o ByDateDesc(rest)

\* options.startDate && options.endDate
BothDates(options) ==
    /\ "startDate" \in DOMAIN options /\ options.startDate # 0
    /\ "endDate" \in DOMAIN options /\ options.endDate # 0

\* The transactions exportCSV writes a row for, in the order of the rows.
CsvTransactions(st, options) ==
    LET transactions == ByDateDesc(st["transactions"])
    IN  IF BothDates(options)
          THEN InRange(transactions, options)
          ELSE transactions

\* map.get(id): the name of the row with the id, NULL when there is none.
NameOf(rows, id) ==
    IF \E i \in 1..Len(rows) : rows[i].id = id
      THEN rows[CHOOSE i \in 1..Len(rows) :
                  rows[i].id = id /\ \A j \in (i + 1)..Len(rows) : rows[j].id # id].name
      ELSE NULL

\* x || fallback
OrElse(x, fallback) == IF x = NULL \/ x = "" THEN fallback ELSE x

CsvHeaders == << << "D", "a", "t", "e" >>, << "D", "e", "s", "c", "r", "i", "p", "t", "i", "o", "n" >>, << "A", "m", "o", "u", "n", "t" >>, << "T", "y", "p", "e" >>, << "A", "c", "c", "o", "u", "n", "t" >>, << "C", "a", "t", "e", "g", "o", "r", "y" >>, << "N", "o", "t", "e", "s" >> >>

exportCSV(st, options) ==
    LET dateFormat == IF "dateFormat" \in DOMAIN options /\ options.dateFormat # ""
                        THEN options.dateFormat ELSE "MM/DD/YYYY"
        transactions == CsvTransactions(st, options)
        Row(t) ==
            Join(<< formatDate(t.date, dateFormat),
                    escapeCSV(t.description),
                    toFixed(t.amount),
                    Chars(t.type),
                    escapeCSV(OrElse(NameOf(st["accounts"], t.account_id), "Unknown")),
                    escapeCSV(IF t.category_id # NULL /\ t.category_id # ""
                                THEN OrElse(NameOf(st["categories"], t.category_id), "")
                                ELSE ""),
                    escapeCSV(t.notes) >>, ",", 1)
    IN  Join(<< Join(CsvHeaders, ",", 1) >>
             \o [i \in 1..Len(transactions) |-> Row(transactions[i])], "\n", 1)

\* options.encrypted && options.password
Encrypting(options) ==
    /\ "encrypted" \in DOMAIN options
    /\ options.encrypted = TRUE
    /\ "password" \in DOMAIN options
    /\ options.password # ""

\* The response of POST /api/backup/export.
\* The options the route hands to exportCSV: startDate and endDate of the
\* date range, and the date format, each left out when the request has none.
CsvOptions(options) ==
    (IF "dateRange" \in DOMAIN options THEN options.dateRange ELSE << >>)
    @@ (IF "dateFormat" \in DOMAIN options
          THEN [dateFormat |-> options.dateFormat] ELSE << >>)

PostExport(st, options, salt, iv) ==
    LET backup == exportSelective(st, options)
    IN  IF options.format = "csv"
          THEN exportCSV(st, CsvOptions(options))
        ELSE IF Encrypting(options)
          THEN encryptBackup(backup, options.password, salt, iv)
          ELSE backup

Scopes == {"all", "transactions", "accounts", "categories"}

DateRanges ==
    { [startDate |-> a, endDate |-> b] : a \in {0, 1}, b \in {1, 2} }
    \cup { [startDate |-> 2, endDate |-> 0] }

\* The bodies POST /api/backup/export receives.
ExportRequests ==
    LET Ranged(o) == {o} \cup { o @@ [dateRange |-> r] : r \in DateRanges }
        Sealing(o) == {o} \cup { o @@ [encrypted |-> TRUE] }
                          \cup { o @@ [encrypted |-> TRUE, password |-> p] :
                                    p \in Passwords \cup {""} }
        Dated(o)   == {o} \cup { o @@ [dateFormat |-> f] :
                                    f \in {"DD/MM/YYYY", "YYYY-MM-DD"} }
    IN  UNION { UNION { Sealing(r) : r \in Ranged([format |-> "json", scope |-> sc]) } :
                  sc \in Scopes }
        \cup UNION { Dated(r) : r \in Ranged([format |-> "csv", scope |-> "all"]) }

\* The bytes crypto.randomBytes may return.
Salts == {"salt1", "salt2"}

Ivs == {"iv1", "iv2"}

\* POST /api/backup/export
ExportPost ==
    /\ last = Idle
    /\ \E options \in ExportRequests, salt \in Salts, iv \in Ivs :
          last' = [op |-> "export", options |-> options,
                   body |-> PostExport(store, options, salt, iv)]
    /\ UNCHANGED store

\* POST /api/backup/import of a file with a record in every collection.
ImportSample ==
    /\ last = Idle
    /\ Handle([version |-> 1, data |-> FullData], [mode |-> "replace"], 0, << >>)

ExportNext ==
    \/ AccountCreateAny
    \/ ImportSample
    \/ CategoryCreate
    \/ TransactionCreate
    \/ ExportBackup
    \/ ExportPost
    \/ Respond

ExportSpec == Init /\ [][ExportNext]_vars

(***************************************************************************)
(* Two replace imports in flight at once.  The server is one process with  *)
(* one event loop and one synchronous database connection: a handler runs  *)
(* up to `await c.req.json()`, yields, and when it resumes runs the whole   *)
(* service call and builds its answer without yielding again.              *)
(***************************************************************************)

Clients == {"A", "B"}

\* The files the two clients send.
ConcurrentSnapshots ==
    { [version |-> 1, data |-> d] :
        d \in { FullData,
                [EmptyData EXCEPT !.accounts = << [id |-> "a1", name |-> "Cash"] >>],
                [EmptyData EXCEPT !.goals = << [id |-> "g1"] >>],
                [EmptyData EXCEPT !.recurringPatterns = << [id |-> "p1"] >>] } }

\* Both requests are on their way, each with its own file.
ConcurrentInit ==
    /\ store = Migrated
    /\ \E a \in ConcurrentSnapshots : \E b \in ConcurrentSnapshots \ {a} :
          last = [op |-> "serving",
                  requests |-> [c \in Clients |->
                                  [pc |-> "sent", data |-> IF c = "A" THEN a ELSE b]],
                  order |-> << >>]

\* The handler of a request starts and waits for the body.
Accept ==
    \E c \in Clients :
        /\ last.requests[c].pc = "sent"
        /\ last' = [last EXCEPT !.requests[c].pc = "awaiting"]
        /\ UNCHANGED store

\* The body is there: the handler resumes, runs importWithOptions with mode
\* replace to its end and answers.
Resume ==
    \E c \in Clients, fault \in 0..MaxFault :
        /\ last.requests[c].pc = "awaiting"
        /\ \E out \in { importWithOptions(store, last.requests[c].data,
                                            [mode |-> "replace"], fault) } :
              /\ fault <= Len(out.log)
              /\ store' = out.store
              /\ last' = [last EXCEPT
                            !.requests[c] = [pc |-> "answered",
                                             data |-> last.requests[c].data,
                                             result |-> out.result,
                                             status |-> StatusOf(out.result)],
                            !.order = Append(@, c)]

ConcurrentNext == Accept \/ Resume

ConcurrentSpec == ConcurrentInit /\ [][ConcurrentNext]_vars

(***************************************************************************)
(* The last import call, as the properties below read it.                  *)
(***************************************************************************)

IsImport == last.op = "import"

\* The call got past the envelope: the payload was plain, or it decrypted.
Opened ==
    /\ IsImport
    /\ isEncryptedBackup(last.data) =>
          /\ "password" \in DOMAIN last.options
          /\ last.options.password # ""
          /\ ~decryptBackup(last.data, last.options.password).threw

\* The snapshot the call went on with.
Snapshot ==
    IF isEncryptedBackup(last.data)
      THEN decryptBackup(last.data, last.options.password).backup
      ELSE last.data

\* The call reached a strategy: backupService.import or importMerge ran.
ReplaceRan == IsImport /\ last.ran = "replace"

MergeRan == IsImport /\ last.ran = "merge"

\* The rows of a snapshot that belong to a table.
Incoming(table) == Snapshot.data[KeyOf(table)]

(***************************************************************************)
(* Properties.                                                             *)
(***************************************************************************)

\* C1  Replace is atomic: when a DELETE or an INSERT of the restore sequence
\* fails, every table holds after the call exactly the rows it held before,
\* and the result reports success = false.
C1_ReplaceAtomic ==
    (ReplaceRan /\ last.threw) => (store = last.before /\ last.result.success = FALSE)

\* A replace that deleted every table, inserted at least one record and then
\* failed on an INSERT, over a store that held an account.
C1_Witness ==
    /\ ReplaceRan
    /\ last.threw
    /\ Len(last.log) > Len(DeleteOrder) + 1
    /\ last.before["accounts"] # << >>

\* C2  Round trip: the file export() returns for the store, imported at once
\* with mode replace, is accepted (success = true) and leaves the store with
\* the same records, field for field.
C2_RoundTrip ==
    (/\ IsImport
     /\ last.data = Export(last.before)
     /\ ModeOf(last.options) = "replace"
     /\ last.fault = 0)
        => (last.result.success = TRUE /\ store = last.before)

\* Every counter of the second of two merges of one snapshot: nothing added,
\* every record skipped, no error.
AllSkipped ==
    /\ \A t \in Tables :
          /\ last.result.summary[AddedKey(t)] = 0
          /\ last.result.summary[SkippedKey(t)] = Len(Incoming(t))
    /\ last.result.errors = << >>

\* C3 as stated  Merge is idempotent for any valid snapshot: merged twice in
\* succession, the second merge adds nothing, skips every record and reports
\* no error.
C3_AnySnapshot ==
    (MergeRan /\ last.prior # << >> /\ last.prior[1].fault = 0) => AllSkipped

\* C3  Merge is idempotent for a snapshot the first merge took in whole: when
\* the first merge committed with an empty error list, the second merge adds
\* nothing, skips every record and reports no error.
C3_MergeIdempotent ==
    (/\ MergeRan
     /\ last.prior # << >>
     /\ last.prior[1].fault = 0
     /\ last.prior[1].result.errors = << >>)
        => AllSkipped

\* A second merge of a snapshot whose first merge added a record and
\* reported no error.
C3_Witness ==
    /\ MergeRan
    /\ last.prior # << >>
    /\ last.prior[1].fault = 0
    /\ last.prior[1].result.errors = << >>
    /\ \E t \in Tables : last.prior[1].result.summary[AddedKey(t)] > 0

\* C4  A merge result whose error list is not empty reports success = false.
C4_ErrorsMeanFailure ==
    (IsImport /\ last.result.mode = "merge" /\ last.result.errors # << >>)
        => last.result.success = FALSE

\* The seven references a merge is to validate: <<table, column, parent table>>.
Edges ==
    { <<"transactions", "account_id", "accounts">>,
      <<"transactions", "category_id", "categories">>,
      <<"transactions", "recurring_pattern_id", "recurring_patterns">>,
      <<"bills", "account_id", "accounts">>,
      <<"bills", "category_id", "categories">>,
      <<"budgets", "category_id", "categories">>,
      <<"goal_contributions", "goal_id", "goals">> }

\* The incoming record is among the rows of its table.
Stored(st, table, rec) ==
    \E i \in 1..Len(st[table]) : st[table][i] = [c \in Columns(table) |-> rec[c]]

\* The error list names the record and the column of its missing reference.
Reported(table, rec, column) ==
    \E k \in 1..Len(last.result.errors) :
        LET e == last.result.errors[k]
        IN  /\ e.entity = EntityOf(table)
            /\ e.id = rec.id
            /\ "field" \in DOMAIN e
            /\ e.field = column

\* No row of the table has the id of its i-th incoming record when that
\* record's turn comes: the record is not skipped as already stored.
Unseen(table, i) ==
    LET recs == Incoming(table)
    IN  /\ ~HasRow(last.before, table, recs[i].id)
        /\ \A j \in 1..(i - 1) :
              recs[j].id = recs[i].id => ~Stored(store, table, recs[j])

\* C5  Referential rejection on every edge: in a merge, a record that is not
\* skipped as already stored and whose reference on any of the seven edges
\* names a parent that is neither in the store nor merged before it is not
\* inserted, and the error list holds an entry with its entity, its id and
\* the field of the missing reference.
C5_EveryEdge ==
    (MergeRan /\ last.fault = 0) =>
        \A e \in Edges : \A i \in 1..Len(Incoming(e[1])) :
            LET rec == Incoming(e[1])[i]
            IN  (/\ rec[e[2]] # NULL
                 /\ ~HasRow(store, e[3], rec[e[2]])
                 /\ Unseen(e[1], i))
                    => (~Stored(store, e[1], rec) /\ Reported(e[1], rec, e[2]))

\* The i-th incoming transaction names an account that is not in the store
\* once the snapshot's accounts have been merged.
NoAccount(i) ==
    ~HasRow(store, "accounts", Incoming("transactions")[i].account_id)

\* A record the store accepts: its columns are bound, its CHECK holds and
\* every reference it makes is NULL or finds its parent.
Valid(table, rec) ==
    /\ Columns(table) \subseteq DOMAIN rec
    /\ CheckOk(table, rec)
    /\ \A fk \in ForeignKeys(table) :
          rec[fk[1]] = NULL \/ HasRow(store, fk[2], rec[fk[1]])

\* The i-th incoming transaction is left out with an error on account_id,
\* and every other valid record of the batch is in the store.
RejectedAlone(i) ==
    /\ ~Stored(store, "transactions", Incoming("transactions")[i])
    /\ Reported("transactions", Incoming("transactions")[i], "account_id")
    /\ \A t \in Tables : \A j \in 1..Len(Incoming(t)) :
          ((t # "transactions" \/ j # i) /\ Valid(t, Incoming(t)[j]))
              => HasRow(store, t, Incoming(t)[j].id)

\* C6 as stated  In a merge, every transaction whose account_id matches no
\* account is not inserted and yields an error with entity 'transaction', its
\* id and field 'account_id', and every other valid record of the batch,
\* before and after it, is inserted and committed.
C6_AnyTransaction ==
    (MergeRan /\ last.fault = 0) =>
        \A i \in 1..Len(Incoming("transactions")) : NoAccount(i) => RejectedAlone(i)

\* C6  In a merge, a transaction that is not skipped as already stored and
\* whose account_id matches no account is not inserted and yields an error
\* with entity 'transaction', its id and field 'account_id', and every other
\* valid record of the batch, before and after it, is inserted and committed.
C6_RejectsDangling ==
    (MergeRan /\ last.fault = 0) =>
        \A i \in 1..Len(Incoming("transactions")) :
            (NoAccount(i) /\ Unseen("transactions", i)) => RejectedAlone(i)

\* A merge that inserted a transaction, rejected the next one for its
\* account, and then inserted a record of a collection that comes later.
C6_Witness ==
    /\ MergeRan
    /\ last.fault = 0
    /\ \E i \in 2..Len(Incoming("transactions")) :
          /\ NoAccount(i)
          /\ Unseen("transactions", i)
          /\ Stored(store, "transactions", Incoming("transactions")[i - 1])
          /\ ~Stored(last.before, "transactions", Incoming("transactions")[i - 1])
    /\ \E t \in {"bills", "budgets", "goals", "goal_contributions"} :
          last.result.summary[AddedKey(t)] > 0

\* C7  Merge is purely additive: every row present before a merge call is
\* present after it with the same field values, whether the merge commits or
\* rolls back; an incoming record whose id is already in its table is counted
\* as skipped and never overwrites the stored row.
C7_MergeAdditive ==
    /\ (IsImport /\ ModeOf(last.options) = "merge") =>
          \A t \in Tables :
              /\ Len(store[t]) >= Len(last.before[t])
              /\ \A i \in 1..Len(last.before[t]) : store[t][i] = last.before[t][i]
    /\ (MergeRan /\ last.fault = 0) =>
          \A t \in Tables :
              last.result.summary[SkippedKey(t)] >=
                  Cardinality({ i \in 1..Len(Incoming(t)) :
                                  HasRow(last.before, t, Incoming(t)[i].id) })

\* A merge that brought a record whose id was stored with other field values.
C7_Witness ==
    /\ MergeRan
    /\ last.fault = 0
    /\ \E t \in Tables : \E i \in 1..Len(Incoming(t)) :
          /\ HasRow(last.before, t, Incoming(t)[i].id)
          /\ ~Stored(last.before, t, Incoming(t)[i])

\* What the validator is to refuse: a version other than 1, a required
\* collection that is missing or no array, a transaction without id,
\* account_id or numeric amount, an account or category without id or name.
Invalid(backup) ==
    \/ "version" \notin DOMAIN backup
    \/ backup.version # 1
    \/ \E k \in 1..Len(RequiredKeys) : RequiredKeys[k] \notin DOMAIN backup.data
    \/ \E i \in 1..Len(backup.data.transactions) :
          LET tx == backup.data.transactions[i]
          IN  Falsy(tx, "id") \/ Falsy(tx, "account_id")
                \/ "amount" \notin DOMAIN tx \/ tx.amount \notin Int
    \/ \E i \in 1..Len(backup.data.accounts) :
          Falsy(backup.data.accounts[i], "id") \/ Falsy(backup.data.accounts[i], "name")
    \/ \E i \in 1..Len(backup.data.categories) :
          Falsy(backup.data.categories[i], "id") \/ Falsy(backup.data.categories[i], "name")

\* C8  Validation precedes every write: when validation reports an error
\* for the snapshot, the call runs no statement on the store and leaves it
\* unchanged, and returns success = false with every count 0 and the
\* validation errors as its errors.
C8_ValidateFirst ==
    (Opened /\ ~last.raised /\ Invalid(Snapshot)) =>
        /\ last.log = << >>
        /\ store = last.before
        /\ last.result.success = FALSE
        /\ last.result.summary = createEmptySummary
        /\ last.result.errors # << >>
        /\ last.result.errors = validateBackupStructure(Snapshot)

\* An import, over a store that holds an account, of a snapshot with the
\* right version and every collection but a record missing a required field.
C8_Witness ==
    /\ Opened
    /\ ~last.raised
    /\ Invalid(Snapshot)
    /\ Snapshot.version = 1
    /\ \A k \in 1..Len(RequiredKeys) : RequiredKeys[k] \in DOMAIN Snapshot.data
    /\ last.before["accounts"] # << >>

\* C9  After a replace that returns success = true, each table holds exactly
\* the records of the snapshot's collection, none of the rows it held before,
\* and each Added count is the collection's length, each Skipped count 0.
C9_ReplaceExact ==
    (ReplaceRan /\ last.result.success = TRUE) =>
        \A t \in Tables :
            /\ store[t] = [i \in 1..Len(Incoming(t)) |->
                             [c \in Columns(t) |-> Incoming(t)[i][c]]]
            /\ last.result.summary[AddedKey(t)] = Len(Incoming(t))
            /\ last.result.summary[SkippedKey(t)] = 0

\* A successful replace of a store that held an account by a snapshot that
\* has records but no account.
C9_Witness ==
    /\ ReplaceRan
    /\ last.result.success = TRUE
    /\ last.before["accounts"] # << >>
    /\ Incoming("accounts") = << >>
    /\ \E t \in Tables : Incoming(t) # << >>

\* The payload is an envelope and the options carry no password or ''.
Passwordless ==
    /\ IsImport
    /\ "encrypted" \in DOMAIN last.data
    /\ last.data.encrypted = TRUE
    /\ ("password" \notin DOMAIN last.options \/ last.options.password = "")

\* C10  An encrypted payload without a password is refused: success = false,
\* the single error 'Password required for encrypted backup', a zero summary,
\* no decryption attempted and the store unchanged.
C10_PasswordRequired ==
    Passwordless =>
        /\ last.result.success = FALSE
        /\ Len(last.result.errors) = 1
        /\ last.result.errors[1].message = "Password required for encrypted backup"
        /\ last.result.summary = createEmptySummary
        /\ last.decrypts = 0
        /\ last.log = << >>
        /\ store = last.before

\* An envelope imported with the empty password over a store with an account.
C10_Witness ==
    /\ Passwordless
    /\ "password" \in DOMAIN last.options
    /\ last.before["accounts"] # << >>

\* The ciphertext of the envelope was made under another password.
WrongPassword(envelope, password) == envelope.data.key.password # password

\* The salt, the iv, the auth tag or the ciphertext is not the one the
\* envelope was sealed with.
Corrupted(envelope) ==
    \/ envelope.salt # envelope.data.key.salt
    \/ envelope.iv # envelope.data.iv
    \/ envelope.authTag # AuthTag(envelope.data.key, envelope.data.iv, envelope.data)

\* The text the envelope hides is not JSON.
Unparsable(envelope) == "json" \notin DOMAIN envelope.data.text

\* An import of an envelope with a password, whose decryption cannot succeed.
DecryptionFails ==
    /\ IsImport
    /\ isEncryptedBackup(last.data)
    /\ "password" \in DOMAIN last.options
    /\ last.options.password # ""
    /\ \/ WrongPassword(last.data, last.options.password)
       \/ Corrupted(last.data)
       \/ Unparsable(last.data)

DecryptionFailed ==
    << [entity |-> "backup", id |-> "global",
        message |-> "Decryption failed - incorrect password or corrupted file"] >>

\* C11  Decryption failure touches nothing: when decrypting an encrypted
\* payload fails (wrong password, altered ciphertext, auth tag, salt or iv,
\* or a text that is not JSON), the result reports success = false with the
\* decryption-failed error and an all-zero summary, neither replace nor
\* merge is entered, no statement runs and the store is unchanged.
C11_DecryptionFailure ==
    DecryptionFails =>
        /\ last.result.success = FALSE
        /\ last.result.errors = DecryptionFailed
        /\ last.result.summary = createEmptySummary
        /\ last.ran = "none"
        /\ last.log = << >>
        /\ store = last.before

\* A correctly keyed import of an envelope whose ciphertext was altered,
\* over a store that holds an account.
C11_Witness ==
    /\ DecryptionFails
    /\ ~WrongPassword(last.data, last.options.password)
    /\ Corrupted(last.data)
    /\ last.before["accounts"] # << >>

\* An import of an envelope as it was sealed, with a password that is not
\* the one it was sealed under.
WrongPasswordOnly ==
    /\ DecryptionFails
    /\ WrongPassword(last.data, last.options.password)
    /\ ~Corrupted(last.data)
    /\ ~Unparsable(last.data)

\* The envelopes that differ from `envelope` in an altered salt, iv, auth
\* tag or ciphertext.
CorruptedFrom(envelope) ==
    { e \in Envelopes : Corrupted(e) /\ e.data.key = envelope.data.key }

\* What the same request returns, and leaves in the store, when it carries
\* envelope `e` and the password `e` was sealed under.
WithRightPassword(e) ==
    importWithOptions(last.before, e,
                      [last.options EXCEPT !.password = e.data.key.password],
                      last.fault)

\* C13  Wrong password and corruption are indistinguishable: the result of
\* an import with a wrong password (success, mode, summary, errors) is the
\* result the same request returns with the right password and an envelope
\* whose salt, iv, auth tag or ciphertext was altered, and both leave the
\* same store.
C13_Indistinguishable ==
    WrongPasswordOnly =>
        \A e \in CorruptedFrom(last.data) :
            /\ WithRightPassword(e).result = last.result
            /\ WithRightPassword(e).store = store

\* A wrong-password import of an envelope of which four altered copies
\* exist, one for each of salt, iv, auth tag and ciphertext.
C13_Witness ==
    /\ WrongPasswordOnly
    /\ \E e \in CorruptedFrom(last.data) : e.salt # last.data.salt
    /\ \E e \in CorruptedFrom(last.data) : e.iv # last.data.iv
    /\ \E e \in CorruptedFrom(last.data) : e.authTag # last.data.authTag
    /\ \E e \in CorruptedFrom(last.data) : e.data # last.data.data

\* The place of a table in an order of the tables.
PlaceIn(order, table) == CHOOSE i \in 1..Len(order) : order[i] = table

\* The statements of a replace begin with the eight deletes, in the order
\* goal_contributions, goals, budgets, bills, transactions,
\* recurring_patterns, categories, accounts, as far as the replace got, and
\* every other statement, each of them an insert, comes after the last delete.
DeletesFirst ==
    LET deletes == << "goal_contributions", "goals", "budgets", "bills",
                      "transactions", "recurring_patterns", "categories", "accounts" >>
    IN  \A i \in 1..Len(last.log) :
            IF i <= Len(deletes)
              THEN last.log[i] = << "DELETE", deletes[i] >>
              ELSE last.log[i][1] = "INSERT"

\* The inserts of a replace follow an order of the collections.
InsertsFollow(order) ==
    \A i, j \in 1..Len(last.log) :
        (i < j /\ last.log[i][1] = "INSERT" /\ last.log[j][1] = "INSERT")
            => PlaceIn(order, last.log[i][2]) <= PlaceIn(order, last.log[j][2])

\* No insert into a collection comes before an insert into a collection it
\* refers to.
ParentsFirst ==
    \A i, j \in 1..Len(last.log) :
        (i < j /\ last.log[i][1] = "INSERT" /\ last.log[j][1] = "INSERT"
               /\ last.log[i][2] # last.log[j][2])
            => ~\E fk \in ForeignKeys(last.log[i][2]) : fk[2] = last.log[j][2]

\* C20 as stated  Replace ordering: the eight deletes run in the order
\* goal_contributions, goals, budgets, bills, transactions,
\* recurring_patterns, categories, accounts, no insert comes before the last
\* delete, and the collections are inserted in the reverse of that order:
\* accounts, categories, recurring_patterns, transactions, bills, budgets,
\* goals, goal_contributions.
C20_ReverseOrder ==
    ReplaceRan =>
        /\ DeletesFirst
        /\ InsertsFollow(<< "accounts", "categories", "recurring_patterns", "transactions",
                            "bills", "budgets", "goals", "goal_contributions" >>)
        /\ ParentsFirst

\* C20  Replace ordering: the eight deletes run in the order
\* goal_contributions, goals, budgets, bills, transactions,
\* recurring_patterns, categories, accounts, no insert comes before the last
\* delete, and the collections are inserted in the order categories,
\* accounts, recurring_patterns, transactions, bills, budgets, goals,
\* goal_contributions, every parent collection before each of its children.
C20_ReplaceOrdering ==
    ReplaceRan =>
        /\ DeletesFirst
        /\ InsertsFollow(<< "categories", "accounts", "recurring_patterns", "transactions",
                            "bills", "budgets", "goals", "goal_contributions" >>)
        /\ ParentsFirst

\* A replace that committed a snapshot with a record in every collection.
C20_Witness ==
    /\ ReplaceRan
    /\ last.result.success = TRUE
    /\ \A t \in Tables : Incoming(t) # << >>
    /\ Len(last.log) = 2 * Len(DeleteOrder)

(***************************************************************************)
(* Properties of the export side.                                          *)
(***************************************************************************)

\* The response of a POST export that asked for an envelope and got one.
IsSealedExport ==
    /\ last.op = "export"
    /\ "options" \in DOMAIN last
    /\ last.options.format = "json"
    /\ Encrypting(last.options)

IsSnapshotExport ==
    /\ last.op = "export"
    /\ "options" \in DOMAIN last => last.options.format = "json"

\* The snapshot an export returned, read out of its envelope when it was
\* sealed.
Exported ==
    IF isEncryptedBackup(last.body) THEN last.body.data.text.json ELSE last.body

\* C14  Metadata is derived: every snapshot export() or exportSelective
\* returns, for any scope and any date range, has totalAccounts,
\* totalTransactions, totalGoals and totalBills equal to the lengths of the
\* collections it returns, filtered as they are.
C14_MetadataDerived ==
    IsSnapshotExport =>
        /\ Exported.metadata.totalAccounts = Len(Exported.data.accounts)
        /\ Exported.metadata.totalTransactions = Len(Exported.data.transactions)
        /\ Exported.metadata.totalGoals = Len(Exported.data.goals)
        /\ Exported.metadata.totalBills = Len(Exported.data.bills)

\* A full-scope export of a ledger with goals and bills, whose date range
\* left out a transaction and kept another.
C14_Witness ==
    /\ IsSnapshotExport
    /\ "options" \in DOMAIN last
    /\ last.options.scope = "all"
    /\ "dateRange" \in DOMAIN last.options
    /\ Exported.data.transactions # << >>
    /\ Len(Exported.data.transactions) < Len(store["transactions"])
    /\ Exported.data.goals # << >>
    /\ Exported.data.bills # << >>

\* A POST export of one collection.
IsScoped ==
    /\ IsSnapshotExport
    /\ "options" \in DOMAIN last
    /\ last.options.scope \in {"transactions", "accounts", "categories"}

\* The rows of the ledger the scoped export is to return.
Expected ==
    IF last.options.scope = "transactions" /\ "dateRange" \in DOMAIN last.options
      THEN LET Dated(t) == /\ last.options.dateRange.startDate <= t.date
                           /\ t.date <= last.options.dateRange.endDate
           IN  SelectSeq(store["transactions"], Dated)
      ELSE store[last.options.scope]

\* C15  Scope filtering: an export of scope transactions, accounts or
\* categories returns empty arrays for the seven other collections, and for
\* the named one the full table of the store, or, for transactions with a
\* date range, exactly the transactions with startDate <= date <= endDate.
C15_ScopeFiltering ==
    IsScoped =>
        /\ \A k \in DOMAIN Exported.data \ {last.options.scope} :
                Exported.data[k] = << >>
        /\ DOMAIN Exported.data = DOMAIN EmptyData
        /\ Exported.data[last.options.scope] = Expected

\* A transactions export over a ledger with accounts and goals, whose date
\* range kept one transaction and left out another.
C15_Witness ==
    /\ IsScoped
    /\ last.options.scope = "transactions"
    /\ "dateRange" \in DOMAIN last.options
    /\ Exported.data.transactions # << >>
    /\ Len(Exported.data.transactions) < Len(store["transactions"])
    /\ store["goals"] # << >>

(***************************************************************************)
(* Properties of the import route and of the call as a whole.              *)
(***************************************************************************)

\* C16  HTTP mapping of failed imports: when an import ends with
\* success = false and left the store as it found it (validation failure,
\* missing password, decryption failure, rolled-back replace, rolled-back
\* merge), the route answers with status 400.
C16_FailedImportIs400 ==
    (IsImport /\ last.result.success = FALSE /\ store = last.before)
        => last.status = 400

\* C17  Import always completes with a result: for every payload, with
\* null elements in its collections or not, and every options value,
\* importWithOptions returns a result and never ends in an exception.
C17_AlwaysReturns == IsImport => ~last.raised

\* The store that holds exactly the records of a snapshot.
StoreOf(backup) ==
    [t \in Tables |->
        [i \in 1..Len(backup.data[KeyOf(t)]) |->
            [c \in Columns(t) |-> backup.data[KeyOf(t)][i][c]]]]

\* Both concurrent replaces were answered with success = true.
BothSucceeded ==
    /\ last.op = "serving"
    /\ \A c \in Clients :
          last.requests[c].pc = "answered" /\ last.requests[c].result.success = TRUE

\* C18  Concurrent replaces do not mix: when two replace imports of
\* different valid snapshots are in flight at once and both succeed, the
\* store holds in all eight tables exactly the records of the snapshot whose
\* replace committed last, and of no other.
C18_NoMixing ==
    BothSucceeded => store = StoreOf(last.requests[last.order[2]].data)

\* Two concurrent replaces that both succeeded, of snapshots that share no
\* record, neither of them empty.
C18_Witness ==
    /\ BothSucceeded
    /\ StoreOf(last.requests["A"].data)["goals"] # << >>
    /\ StoreOf(last.requests["B"].data)["goals"] = << >>
    /\ StoreOf(last.requests["B"].data)["recurring_patterns"] # << >>
    /\ last.order = << "B", "A" >>

(***************************************************************************)
(* Properties of the CSV export.                                           *)
(***************************************************************************)

IsCsvExport ==
    /\ last.op = "export"
    /\ "options" \in DOMAIN last
    /\ last.options.format = "csv"

\* The parts of a text between the occurrences of a separator that lie
\* outside double quotes.
SplitAt(text, sep) ==
    LET Outside(i) == Cardinality({ j \in 1..(i - 1) : text[j] = "\"" }) % 2 = 0
        cuts == { i \in 1..Len(text) : text[i] = sep /\ Outside(i) }
        Cut(k) == IF k = 0 THEN 0
                  ELSE IF k > Cardinality(cuts) THEN Len(text) + 1
                  ELSE CHOOSE c \in cuts : Cardinality({ x \in cuts : x < c }) = k - 1
    IN  [k \in 1..(Cardinality(cuts) + 1) |-> SubSeq(text, Cut(k - 1) + 1, Cut(k) - 1)]

\* The rows of a CSV text, each the sequence of its fields as written: a
\* comma ends a field and a newline ends a row, except inside double quotes.
ParseCsv(text) ==
    LET lines == SplitAt(text, "\n")
    IN  [r \in 1..Len(lines) |-> SplitAt(lines[r], ",")]

\* The field of a value: empty for null and for the empty string, the value
\* in double quotes with every double quote doubled when it holds a comma, a
\* double quote or a newline, the value as it is otherwise.
RECURSIVE Doubled(_)
Doubled(chars) ==
    IF chars = << >> THEN << >>
    ELSE (IF Head(chars) = "\"" THEN << "\"", "\"" >> ELSE << Head(chars) >>)
         \o Doubled(Tail(chars))

FieldOf(val) ==
    IF val = NULL \/ val = "" THEN << >>
    ELSE IF \E i \in 1..Len(Chars(val)) : Chars(val)[i] \in {",", "\"", "\n"}
      THEN << "\"" >> \o Doubled(Chars(val)) \o << "\"" >>
    ELSE Chars(val)

\* The number a sequence of decimal digits writes.
RECURSIVE NumberOf(_)
NumberOf(digits) ==
    IF digits = << >> THEN 0
    ELSE 10 * NumberOf(SubSeq(digits, 1, Len(digits) - 1))
         + (CHOOSE d \in 0..9 : Digit(d) = digits[Len(digits)])

\* The field writes the amount with exactly two decimals.
TwoDecimals(field, amount) ==
    LET body == IF field # << >> /\ Head(field) = "-" THEN Tail(field) ELSE field
        n    == Len(body)
    IN  /\ n >= 4
        /\ body[n - 2] = "."
        /\ \A i \in (1..n) \ {n - 2} : \E d \in 0..9 : Digit(d) = body[i]
        /\ (IF body = field THEN 1 ELSE 0 - 1)
             * (100 * NumberOf(SubSeq(body, 1, n - 3)) + NumberOf(SubSeq(body, n - 1, n)))
           = amount

\* The name of the row a transaction refers to, NULL when it refers to none.
Referred(table, id) == IF id = NULL THEN NULL ELSE NameOf(store[table], id)

\* C19  CSV field escaping: every transaction of a CSV export has a row of
\* seven fields in which description, account name, category name and notes
\* are in double quotes with every inner double quote doubled exactly when
\* the value holds a comma, a double quote or a newline, a null or empty
\* value is an empty field, and the amount has exactly two decimals.
C19_CsvEscaping ==
    IsCsvExport =>
        LET rows == ParseCsv(last.body)
            txs  == CsvTransactions(store, CsvOptions(last.options))
        IN  /\ Len(rows) = Len(txs) + 1
            /\ \A i \in 1..Len(txs) :
                  /\ Len(rows[i + 1]) = 7
                  /\ rows[i + 1][2] = FieldOf(txs[i].description)
                  /\ TwoDecimals(rows[i + 1][3], txs[i].amount)
                  /\ rows[i + 1][5] = FieldOf(Referred("accounts", txs[i].account_id))
                  /\ rows[i + 1][6] = FieldOf(Referred("categories", txs[i].category_id))
                  /\ rows[i + 1][7] = FieldOf(txs[i].notes)

(***************************************************************************)
(* Properties of the merge.                                                *)
(***************************************************************************)

\* The j-th statement of a merge is the lookup of a transaction's account or
\* of a contribution's goal: it follows the existence check of the child.
Lookup(j) ==
    /\ j > 1
    /\ << last.log[j - 1], last.log[j] >> \in
          { << << "SELECT", "transactions" >>, << "SELECT", "accounts" >> >>,
            << << "SELECT", "goal_contributions" >>, << "SELECT", "goals" >> >> }

\* The statements of a merge go through the collections in the order given:
\* the lookups apart, which belong to the child's turn, a statement on a
\* later collection never comes before a statement on an earlier one.
MergeFollows(order) ==
    \A i, j \in 1..Len(last.log) :
        (i < j /\ ~Lookup(i) /\ ~Lookup(j))
            => PlaceIn(order, last.log[i][2]) <= PlaceIn(order, last.log[j][2])

\* The i-th incoming record of the table is one the store accepts, it is not
\* skipped, it refers to a parent the store did not hold before the call,
\* and every parent it refers to came with the snapshot and is in the store
\* after the call.
ParentSupplied(table, i) ==
    LET rec == Incoming(table)[i]
    IN  /\ Valid(table, rec)
        /\ Unseen(table, i)
        /\ \E fk \in ForeignKeys(table) :
              rec[fk[1]] # NULL /\ ~HasRow(last.before, fk[2], rec[fk[1]])
        /\ \A fk \in ForeignKeys(table) :
              (rec[fk[1]] # NULL /\ ~HasRow(last.before, fk[2], rec[fk[1]])) =>
                  \E j \in 1..Len(Incoming(fk[2])) :
                      /\ Incoming(fk[2])[j].id = rec[fk[1]]
                      /\ Stored(store, fk[2], Incoming(fk[2])[j])

\* C21  Merge ordering: within one merge the collections are processed in the
\* order categories, accounts, recurring_patterns, transactions, bills,
\* budgets, goals, goal_contributions, each fully before the next, and so an
\* incoming record whose parent is not in the store but is supplied and
\* inserted by the same snapshot is itself inserted, not rejected.
C21_MergeOrdering ==
    (MergeRan /\ last.fault = 0) =>
        /\ MergeFollows(<< "categories", "accounts", "recurring_patterns", "transactions",
                           "bills", "budgets", "goals", "goal_contributions" >>)
        /\ \A t \in Tables : \A i \in 1..Len(Incoming(t)) :
              ParentSupplied(t, i) => Stored(store, t, Incoming(t)[i])

\* The same ordering, and the same insertion for the references that lead
\* from one collection to another: every reference but a category's parent_id.
MergeAcrossCollections ==
    (MergeRan /\ last.fault = 0) =>
        /\ MergeFollows(<< "categories", "accounts", "recurring_patterns", "transactions",
                           "bills", "budgets", "goals", "goal_contributions" >>)
        /\ \A t \in Tables \ {"categories"} : \A i \in 1..Len(Incoming(t)) :
              ParentSupplied(t, i) => Stored(store, t, Incoming(t)[i])

\* The error the outer catch of importMerge appends.
GlobalError(e) == e.entity = "backup" /\ e.id = "global"

\* C22  Merge outer rollback: when an exception escapes the per-record
\* handling of a merge, as from an existence check, every table holds after
\* the call exactly the rows it held before, the records inserted earlier in
\* the call included, and the result reports success = false with a global
\* error at the end of its error list.
C22_MergeRollback ==
    (MergeRan /\ last.threw) =>
        /\ store = last.before
        /\ last.result.success = FALSE
        /\ last.result.errors # << >>
        /\ GlobalError(last.result.errors[Len(last.result.errors)])

\* The store failed on an existence check of a merge that had inserted a
\* record before it.
C22_Witness ==
    /\ MergeRan
    /\ last.threw
    /\ last.fault > 1
    /\ last.log[last.fault][1] = "SELECT"
    /\ \E t \in Tables : last.result.summary[AddedKey(t)] > 0

\* The INSERT statements the call ran on the table.
InsertsInto(t) == { i \in 1..Len(last.log) : last.log[i] = << "INSERT", t >> }

\* The existence checks the call ran for the records of the table.
ChecksOf(t) == { i \in 1..Len(last.log) : last.log[i] = << "SELECT", t >> /\ ~Lookup(i) }

\* The errors left by a refused insert of a record of the table: those the
\* catch around the INSERT pushed, which carry no field.
Refused(t) ==
    { k \in 1..Len(last.result.errors) :
        /\ last.result.errors[k].entity = EntityOf(t)
        /\ "field" \notin DOMAIN last.result.errors[k] }

\* C23  Merge per-record failure is not fatal: in a merge where the store
\* fails on no existence check, every insert the store refuses leaves exactly
\* one error for its record, every record of the snapshot is still processed,
\* nothing is rolled back, and every insert the store accepted, before and
\* after a refused one, is committed.
C23_RecordFailure ==
    (MergeRan /\ (last.fault = 0 \/ last.log[last.fault][1] = "INSERT")) =>
        /\ ~last.threw
        /\ last.result.success = TRUE
        /\ \A t \in Tables :
              /\ Cardinality(Refused(t)) + last.result.summary[AddedKey(t)]
                    = Cardinality(InsertsInto(t))
              /\ Cardinality(ChecksOf(t)) = Len(Incoming(t))
              /\ Len(store[t]) = Len(last.before[t]) + last.result.summary[AddedKey(t)]
              /\ \A i \in 1..Len(last.before[t]) : store[t][i] = last.before[t][i]

\* The store refused a record of a merge, on a check of the schema, after a
\* record of an earlier collection was inserted and before a record of the
\* same collection and a record of a later collection were inserted.
C23_Witness ==
    /\ MergeRan
    /\ last.fault = 0
    /\ \E t, u, w \in Tables :
          /\ PlaceIn(InsertOrder, u) < PlaceIn(InsertOrder, t)
          /\ PlaceIn(InsertOrder, t) < PlaceIn(InsertOrder, w)
          /\ last.result.summary[AddedKey(u)] > 0
          /\ last.result.summary[AddedKey(w)] > 0
          /\ last.result.summary[AddedKey(t)] > 0
          /\ Cardinality(Refused(t)) = 1
          /\ \E i \in 2..Len(Incoming(t)) :
                /\ Stored(store, t, Incoming(t)[i])
                /\ ~Stored(store, t, Incoming(t)[i - 1])
                /\ ~HasRow(last.before, t, Incoming(t)[i].id)

(***************************************************************************)
(* Properties of the validation and of importWithOptions.                  *)
(***************************************************************************)

\* The required collections the snapshot lacks.
MissingKeys ==
    { k \in 1..Len(RequiredKeys) : RequiredKeys[k] \notin DOMAIN Snapshot.data }

BadVersion == "version" \notin DOMAIN Snapshot \/ Snapshot.version # 1

\* The errors of the result with the given entity and id.
ErrorsOn(entity, id) ==
    { k \in 1..Len(last.result.errors) :
        last.result.errors[k].entity = entity /\ last.result.errors[k].id = id }

\* C24  Structural validation is exhaustive: for a snapshot with a version
\* other than 1 or with a required collection missing or not an array, the
\* errors are one for each such collection and one for the version, all in
\* the same list, and nothing else: no record is checked.
C24_StructuralErrors ==
    (Opened /\ (BadVersion \/ MissingKeys # {})) =>
        /\ ~last.raised
        /\ last.ran = "none"
        /\ \A k \in 1..Len(RequiredKeys) :
              Cardinality(ErrorsOn("backup", RequiredKeys[k]))
                  = IF k \in MissingKeys THEN 1 ELSE 0
        /\ Cardinality(ErrorsOn("backup", "version")) = IF BadVersion THEN 1 ELSE 0
        /\ Len(last.result.errors)
              = Cardinality(MissingKeys) + IF BadVersion THEN 1 ELSE 0

\* A snapshot of version 2 that lacks two collections and carries a
\* transaction the record checks would refuse or fail on.
C24_Witness ==
    /\ Opened
    /\ BadVersion
    /\ Cardinality(MissingKeys) = 2
    /\ "transactions" \in DOMAIN Snapshot.data
    /\ Snapshot.data.transactions # << >>
    /\ Len(last.result.errors) = 3

\* The number of records of the table the call left in the store: none when
\* no strategy ran or the strategy was rolled back, the whole table after a
\* replace, the rows past the earlier content after a merge.
Persisted(t) ==
    IF last.ran = "none" \/ last.threw THEN 0
    ELSE IF last.ran = "replace" THEN Len(store[t])
    ELSE Len(store[t]) - Len(last.before[t])

\* C25  Summary counts reflect what was persisted: for every result of an
\* import, in either mode and whether success is true or false, each Added
\* count is the number of records of its collection the call left in the
\* store; a replace or a merge that was rolled back reports every Added as 0.
C25_AddedIsPersisted ==
    IsImport => \A t \in Tables : last.result.summary[AddedKey(t)] = Persisted(t)

\* No statement of the call deleted from a table, and every row a table
\* held before the call is still in its place.
NothingDeleted ==
    /\ \A i \in 1..Len(last.log) : last.log[i][1] # "DELETE"
    /\ \A t \in Tables :
          /\ Len(store[t]) >= Len(last.before[t])
          /\ \A i \in 1..Len(last.before[t]) : store[t][i] = last.before[t][i]

\* C26  Destructive mode only on explicit request: an import runs the
\* replace only when options.mode is exactly 'replace'; for any other mode,
\* missing, misspelled or in another case, no existing record is deleted.
C26_ReplaceOnRequest ==
    IsImport =>
        /\ last.ran = "replace" => ModeOf(last.options) = "replace"
        /\ ModeOf(last.options) # "replace" => NothingDeleted

(***************************************************************************)
(* Properties of POST /api/backup/export.                                  *)
(***************************************************************************)

\* C27  Encrypted export never leaks plaintext: whenever the JSON export is
\* asked for with encrypted = true, the body of the answer is an encrypted
\* envelope, never a plain snapshot, also when the password is missing or
\* empty.
C27_NoPlaintext ==
    (/\ last.op = "export"
     /\ "options" \in DOMAIN last
     /\ last.options.format = "json"
     /\ "encrypted" \in DOMAIN last.options
     /\ last.options.encrypted = TRUE)
        => isEncryptedBackup(last.body)

(***************************************************************************)
(* Properties of the store.                                                *)
(***************************************************************************)

\* The references a row must make: <<table, column>>.
Mandatory ==
    { <<"transactions", "account_id">>, <<"budgets", "category_id">>,
      <<"goal_contributions", "goal_id">> }

\* C28  Referential integrity is an invariant of the store: after any
\* sequence of replace and merge imports, committed, failed or partly
\* successful, every transaction names an existing account, every budget an
\* existing category, every goal contribution an existing goal, and every
\* optional reference that is not null (category_id of a transaction or a
\* bill, account_id of a bill, recurring_pattern_id of a transaction,
\* parent_id of a category) names an existing row.
C28_ReferentialIntegrity ==
    \A t \in Tables : \A i \in 1..Len(store[t]) : \A fk \in ForeignKeys(t) :
        LET ref == store[t][i][fk[1]]
        IN  IF ref = NULL THEN << t, fk[1] >> \notin Mandatory
            ELSE HasRow(store, fk[2], ref)

\* A merge that left an error and yet filled every table that refers to
\* another, over a store that earlier imports had written.
C28_Witness ==
    /\ MergeRan
    /\ last.result.errors # << >>
    /\ \E t \in Tables : last.before[t] # << >> /\ t # "categories"
    /\ \A t \in Tables : (ForeignKeys(t) # {} /\ t # "categories") => store[t] # << >>
    /\ \E i \in 1..Len(store["transactions"]) :
          /\ store["transactions"][i].category_id # NULL
          /\ store["transactions"][i].recurring_pattern_id # NULL

(***************************************************************************)
(* Properties of the merge's accounting.                                   *)
(***************************************************************************)

\* The errors of the result that name a record of the table.
ErrorsFor(t) ==
    { k \in 1..Len(last.result.errors) : last.result.errors[k].entity = EntityOf(t) }

\* Every incoming record is counted once: as added, as skipped or by an error.
CountedOnce(t) ==
    /\ last.result.summary[AddedKey(t)] + last.result.summary[SkippedKey(t)]
          + Cardinality(ErrorsFor(t)) = Len(Incoming(t))
    /\ last.result.summary[AddedKey(t)] = Len(store[t]) - Len(last.before[t])

\* The incoming records of the table whose id an earlier record of the same
\* collection carries.
Repeats(t) ==
    { i \in 1..Len(Incoming(t)) :
        \E j \in 1..(i - 1) : Incoming(t)[j].id = Incoming(t)[i].id }

\* C29 as stated  Merge accounting is exhaustive and exclusive: for a merge
\* that commits, in each collection Added + Skipped + the number of errors
\* for its records is the number of incoming records, each counted in one of
\* the three, and every second occurrence of an id within an incoming
\* collection is counted as skipped.
C29_EveryRepeatSkipped ==
    (MergeRan /\ ~last.threw) =>
        \A t \in Tables :
            /\ CountedOnce(t)
            /\ last.result.summary[SkippedKey(t)] =
                  Cardinality({ i \in 1..Len(Incoming(t)) :
                                  HasRow(last.before, t, Incoming(t)[i].id) }
                              \cup Repeats(t))

\* C29  Merge accounting is exhaustive and exclusive: for a merge that
\* commits, in each collection Added + Skipped + the number of errors for its
\* records is the number of incoming records, each counted in one of the
\* three: a record is skipped exactly when no insert and no lookup error
\* follows its existence check, which, the store failing on no statement,
\* are the records whose id was stored before the call or was inserted by an
\* earlier occurrence in the same collection.
C29_MergeAccounting ==
    (MergeRan /\ ~last.threw) =>
        \A t \in Tables :
            /\ CountedOnce(t)
            /\ last.result.summary[SkippedKey(t)] =
                  Cardinality(ChecksOf(t)) - Cardinality(InsertsInto(t))
                    - Cardinality(ErrorsFor(t) \ Refused(t))
            /\ last.fault = 0 =>
                  last.result.summary[SkippedKey(t)] =
                      Cardinality({ i \in 1..Len(Incoming(t)) : ~Unseen(t, i) })

\* A merge that committed with a record added, a record skipped as the
\* second of its id, and a record left with an error.
C29_Witness ==
    /\ MergeRan
    /\ ~last.threw
    /\ \E t \in Tables : last.result.summary[AddedKey(t)] > 0
    /\ \E t \in Tables :
          /\ last.result.summary[SkippedKey(t)] > 0
          /\ \E i \in Repeats(t) : ~HasRow(last.before, t, Incoming(t)[i].id)
    /\ last.result.errors # << >>

(***************************************************************************)
(* Properties of the CSV export's date range.                              *)
(***************************************************************************)

\* C30  CSV date-range filter: a CSV export asked for with both startDate
\* and endDate, for any values in epoch milliseconds, 0 included, has a row
\* for exactly the transactions with startDate <= date <= endDate, in
\* descending order of date, and for no others.
C30_CsvDateRange ==
    (IsCsvExport /\ "dateRange" \in DOMAIN last.options) =>
        LET rows   == ParseCsv(last.body)
            wanted == InRange(ByDateDesc(store["transactions"]), last.options.dateRange)
        IN  /\ Len(rows) = Len(wanted) + 1
            /\ \A i \in 1..Len(wanted) :
                  /\ rows[i + 1][2] = FieldOf(wanted[i].description)
                  /\ TwoDecimals(rows[i + 1][3], wanted[i].amount)
                  /\ rows[i + 1][7] = FieldOf(wanted[i].notes)
            /\ \A i, j \in 1..Len(wanted) : i < j => wanted[i].date >= wanted[j].date
====
